---- MODULE Spec2Model ----
(***************************************************************************)
(* seqdedupe: removal of duplicate and substring sequences from FASTA      *)
(* files.  Two programs are modelled: the basic one (src/src/main.rs) and  *)
(* the optimized one (src/src/optimized.rs: a streaming exact-duplicate    *)
(* processor and a parallel substring remover).                            *)
(*                                                                         *)
(* A string is a sequence of one-character strings, a line is a string, a  *)
(* file is a sequence of lines, a FastaRecord is a record with the fields  *)
(* header and sequence.                                                    *)
(***************************************************************************)
EXTENDS Integers, Sequences, FiniteSets, TLC

(***************************************************************************)
(* Bounds of the model                                                     *)
(***************************************************************************)
\* longest string handed to reverse_complement in SpecRC
MaxRcLen == 3
\* longest sequence of a record handed to the in-memory removers in SpecFn
MaxSeqLen == 2
\* longest record list handed to the in-memory removers in SpecFn
MaxRecs == 3
\* longest input text of the parse/write round trip in SpecFasta
MaxTextLen == 7
\* longest input file of the programs in Spec
MaxLines == 5
\* largest --batch-size of the streaming processor in Spec
MaxBatch == 3
\* largest resolved worker count in Spec
MaxCores == 2

(***************************************************************************)
(* Program constants                                                       *)
(***************************************************************************)
\* optimized.rs:239  (records.len() / num_cores).max(1000)
MinBatchSize == 1000

(***************************************************************************)
(* Characters and strings                                                  *)
(***************************************************************************)
UpperDna == {"A", "T", "G", "C", "N", "-"}
LowerDna == {"a", "t", "g", "c", "n"}
DnaChars == UpperDna \cup LowerDna
Whitespace == {" "}

Max(a, b) == IF a >= b THEN a ELSE b

\* b, once a has its value.  The model checker evaluates a definition when it
\* is first read; a loop over a long list has to have the state of its first
\* half before it enters the second.
After(a, b) == IF a = a THEN b ELSE b

\* all strings over the characters cs of length at most n
StringsUpTo(cs, n) == UNION {[1..k -> cs] : k \in 0..n}

\* all sequences over the set S of length at most n
SeqsUpTo(S, n) == UNION {[1..k -> S] : k \in 0..n}

\* char::to_ascii_uppercase
to_ascii_uppercase(c) ==
  CASE c = "a" -> "A"
    [] c = "t" -> "T"
    [] c = "g" -> "G"
    [] c = "c" -> "C"
    [] c = "n" -> "N"
    [] OTHER -> c

\* str::to_uppercase restricted to ASCII, the reference of the case
\* normalisation
UpperCase(s) == [i \in 1..Len(s) |-> to_ascii_uppercase(s[i])]

IsUpperCase(s) == \A i \in 1..Len(s) : s[i] \notin LowerDna

\* Iterator::rev
Rev(s) == [i \in 1..Len(s) |-> s[Len(s) + 1 - i]]

\* str::contains(&str): needle occurs in hay as a contiguous run
contains(hay, needle) ==
  \E i \in 0..(Len(hay) - Len(needle)) :
    SubSeq(hay, i + 1, i + Len(needle)) = needle

\* str::starts_with('>')
starts_with_gt(line) == Len(line) > 0 /\ line[1] = ">"

\* str::trim: leading and trailing whitespace removed
RECURSIVE trim_start(_)
trim_start(s) ==
  IF Len(s) > 0 /\ s[1] \in Whitespace THEN trim_start(Tail(s)) ELSE s

RECURSIVE trim_end(_)
trim_end(s) ==
  IF Len(s) > 0 /\ s[Len(s)] \in Whitespace
  THEN trim_end(SubSeq(s, 1, Len(s) - 1))
  ELSE s

trim(s) == trim_end(trim_start(s))

(***************************************************************************)
(* main.rs: reverse_complement                                             *)
(***************************************************************************)
\* a complement that maps T to itself
ComplementBaseStuckT(c) ==
  LET u == to_ascii_uppercase(c) IN
  CASE u = "A" -> "T"
    [] u = "T" -> "T"
    [] u = "G" -> "C"
    [] u = "C" -> "G"
    [] OTHER -> u

\* main.rs:76-84, the match on c.to_ascii_uppercase()
ComplementBase(c) ==
  LET u == to_ascii_uppercase(c) IN
  CASE u = "A" -> "T"
    [] u = "T" -> "A"
    [] u = "G" -> "C"
    [] u = "C" -> "G"
    [] u = "N" -> "N"
    [] u = "-" -> "-"
    [] OTHER -> u

reverse_complement(sequence) ==
  LET r == Rev(sequence) IN [i \in 1..Len(r) |-> ComplementBase(r[i])]

(***************************************************************************)
(* optimized.rs: reverse_complement                                        *)
(***************************************************************************)
\* optimized.rs:47-55
OptComplementBase(c) ==
  LET u == to_ascii_uppercase(c) IN
  CASE u = "A" -> "T"
    [] u = "T" -> "A"
    [] u = "G" -> "C"
    [] u = "C" -> "G"
    [] u = "N" -> "N"
    [] u = "-" -> "-"
    [] OTHER -> u

opt_reverse_complement(sequence) ==
  LET r == Rev(sequence) IN [i \in 1..Len(r) |-> OptComplementBase(r[i])]

(***************************************************************************)
(* main.rs: FastaRecord, parse_fasta, write_fasta                          *)
(***************************************************************************)
FastaRecord(h, s) == [header |-> h, sequence |-> s]

\* the set of the sequences of a record list
SequenceSet(rs) == {rs[i].sequence : i \in 1..Len(rs)}

\* parse_fasta before the first line: records, current_header,
\* current_sequence (main.rs:40-42)
ParseStart == [records |-> <<>>, current_header |-> <<>>, current_sequence |-> <<>>]

\* the body of the loop over reader.lines() (main.rs:44-60) that keeps the
\* trailing whitespace of a line
ParseLineNoTrim(st, raw) ==
  LET line == trim_start(raw) IN
  IF starts_with_gt(line)
  THEN [records |-> IF st.current_header # <<>>
                    THEN Append(st.records,
                                FastaRecord(st.current_header, st.current_sequence))
                    ELSE st.records,
        current_header |-> line,
        current_sequence |-> <<>>]
  ELSE IF line # <<>>
       THEN [st EXCEPT !.current_sequence = @ \o line]
       ELSE st

\* the body of the loop over reader.lines() (main.rs:44-60)
ParseLine(st, raw) ==
  LET line == trim(raw) IN
  IF starts_with_gt(line)
  THEN [records |-> IF st.current_header # <<>>
                    THEN Append(st.records,
                                FastaRecord(st.current_header, st.current_sequence))
                    ELSE st.records,
        current_header |-> line,
        current_sequence |-> <<>>]
  ELSE IF line # <<>>
       THEN [st EXCEPT !.current_sequence = @ \o line]
       ELSE st

RECURSIVE ParseLines(_, _, _)
ParseLines(st, lines, i) ==
  IF i > Len(lines) THEN st ELSE ParseLines(ParseLine(st, lines[i]), lines, i + 1)

\* a parser that forgets the record open at end of input
ParseFinishDropLast(st) == st.records

\* the record open at end of input (main.rs:62-67)
ParseFinish(st) ==
  IF st.current_header # <<>>
  THEN Append(st.records, FastaRecord(st.current_header, st.current_sequence))
  ELSE st.records

\* parse_fasta on a file that File::open has opened: its lines to records
parse_fasta(lines) == ParseFinish(ParseLines(ParseStart, lines, 1))

\* the lines that writeln! emits for a record list: header, then sequence
RECURSIVE RecordLines(_)
RecordLines(rs) ==
  IF rs = <<>> THEN <<>>
  ELSE <<Head(rs).header, Head(rs).sequence>> \o RecordLines(Tail(rs))

\* an output destination: how often File::create ran on the output path and
\* the lines the destination holds
NoOutput == [creates |-> 0, lines |-> <<>>]

\* write_fasta (main.rs:152-169): output is "file" (Some) or "stdout" (None);
\* File::create truncates
write_fasta(rs, output, dest) ==
  IF output = "file"
  THEN [creates |-> dest.creates + 1, lines |-> RecordLines(rs)]
  ELSE [dest EXCEPT !.lines = @ \o RecordLines(rs)]

\* the (header, sequence) pairs an output holds: lines 2k-1 and 2k
OutputRecords(lines) ==
  [k \in 1..(Len(lines) \div 2) |-> FastaRecord(lines[2 * k - 1], lines[2 * k])]

(***************************************************************************)
(* main.rs: remove_exact_duplicates                                        *)
(***************************************************************************)
\* before the loop (main.rs:89-90)
DedupStart == [seen_sequences |-> {}, unique_records |-> <<>>]

\* a loop body whose first test is seen_sequences.remove instead of
\* seen_sequences.contains
DedupStepRemove(st, record, is_dna) ==
  LET dup1 == record.sequence \in st.seen_sequences
      seen1 == st.seen_sequences \ {record.sequence}
      rev_comp == reverse_complement(record.sequence)
      is_duplicate == dup1 \/ (is_dna /\ rev_comp \in seen1)
  IN IF is_duplicate
     THEN [st EXCEPT !.seen_sequences = seen1]
     ELSE [seen_sequences |->
             seen1 \cup {record.sequence}
                   \cup (IF is_dna THEN {rev_comp} ELSE {}),
           unique_records |-> Append(st.unique_records, record)]

\* a loop body that never records the reverse complement
DedupStepNoRevComp(st, record, is_dna) ==
  LET is_duplicate == record.sequence \in st.seen_sequences
  IN IF is_duplicate
     THEN st
     ELSE [seen_sequences |-> st.seen_sequences \cup {record.sequence},
           unique_records |-> Append(st.unique_records, record)]

\* the loop body (main.rs:92-113)
DedupStep(st, record, is_dna) ==
  LET rev_comp == reverse_complement(record.sequence)
      is_duplicate ==
        \/ record.sequence \in st.seen_sequences
        \/ is_dna /\ rev_comp \in st.seen_sequences
  IN IF is_duplicate
     THEN st
     ELSE [seen_sequences |->
             st.seen_sequences \cup {record.sequence}
                               \cup (IF is_dna THEN {rev_comp} ELSE {}),
           unique_records |-> Append(st.unique_records, record)]

RECURSIVE DedupLoop(_, _, _, _)
DedupLoop(st, records, i, is_dna) ==
  IF i > Len(records) THEN st
  ELSE DedupLoop(DedupStep(st, records[i], is_dna), records, i + 1, is_dna)

remove_exact_duplicates(records, is_dna) ==
  DedupLoop(DedupStart, records, 1, is_dna).unique_records

(***************************************************************************)
(* main.rs: remove_substring_sequences                                     *)
(***************************************************************************)
MaxSeqLenOf(rs) ==
  IF rs = <<>> THEN 0
  ELSE CHOOSE n \in {Len(rs[i].sequence) : i \in 1..Len(rs)} :
         \A i \in 1..Len(rs) : Len(rs[i].sequence) <= n

HasLen(r, n) == Len(r.sequence) = n

RECURSIVE SortFrom(_, _)
SortFrom(rs, n) ==
  IF n < 0 THEN <<>>
  ELSE SelectSeq(rs, LAMBDA r : HasLen(r, n)) \o SortFrom(rs, n - 1)

\* a remover that skips the sort
sort_by_len_desc_none(rs) == rs

\* records.sort_by(|a, b| b.sequence.len().cmp(&a.sequence.len())): a stable
\* sort, longest first (main.rs:119)
sort_by_len_desc(rs) == SortFrom(rs, MaxSeqLenOf(rs))

\* the inner loop over kept_records (main.rs:127-142)
IsSubstringOfKept(kept_records, current_seq, is_dna) ==
  \E j \in 1..Len(kept_records) :
    LET longer_seq == kept_records[j].sequence IN
    \/ contains(longer_seq, current_seq)
    \/ is_dna /\ contains(longer_seq, reverse_complement(current_seq))

\* the outer loop body (main.rs:123-147)
SubstringStep(kept_records, record, is_dna) ==
  IF IsSubstringOfKept(kept_records, record.sequence, is_dna)
  THEN kept_records
  ELSE Append(kept_records, record)

\* the loop over the sorted records (main.rs:113), for the records lo..hi in
\* their order: the first half of them, then the second
RECURSIVE SubstringLoop(_, _, _, _, _)
SubstringLoop(kept_records, records, lo, hi, is_dna) ==
  IF lo > hi THEN kept_records
  ELSE IF lo = hi THEN SubstringStep(kept_records, records[lo], is_dna)
  ELSE LET mid == (lo + hi) \div 2
           half == SubstringLoop(kept_records, records, lo, mid, is_dna)
       IN After(half, SubstringLoop(half, records, mid + 1, hi, is_dna))

remove_substring_sequences(records, is_dna) ==
  LET sorted == sort_by_len_desc(records)
  IN SubstringLoop(<<>>, sorted, 1, Len(sorted), is_dna)

(***************************************************************************)
(* optimized.rs: process_batch and process_streaming_duplicates            *)
(***************************************************************************)
\* a batch pass that looks for duplicates only within the batch: it starts
\* from an empty seen set
BatchStartForgetful(seen_sequences, lines) ==
  [seen_sequences |-> {}, lines |-> lines, kept_count |-> 0]

\* process_batch before its loop (optimized.rs:152-153): the seen set and the
\* output writer are the caller's
BatchStart(seen_sequences, lines) ==
  [seen_sequences |-> seen_sequences, lines |-> lines, kept_count |-> 0]

\* a loop body that inserts the sequence of a kept record only
BatchStepNoRevComp(st, record, is_dna) ==
  LET sequence == record.sequence
      rev_comp == opt_reverse_complement(sequence)
      is_duplicate ==
        \/ sequence \in st.seen_sequences
        \/ is_dna /\ rev_comp \in st.seen_sequences
  IN IF is_duplicate
     THEN st
     ELSE [seen_sequences |-> st.seen_sequences \cup {sequence},
           lines |-> st.lines \o <<record.header, record.sequence>>,
           kept_count |-> st.kept_count + 1]

\* the body of the loop over batch.drain(..) (optimized.rs:155-183)
BatchStep(st, record, is_dna) ==
  LET sequence == record.sequence
      rev_comp == opt_reverse_complement(sequence)
      is_duplicate ==
        \/ sequence \in st.seen_sequences
        \/ is_dna /\ rev_comp \in st.seen_sequences
  IN IF is_duplicate
     THEN st
     ELSE [seen_sequences |->
             st.seen_sequences \cup {sequence}
                               \cup (IF is_dna THEN {rev_comp} ELSE {}),
           lines |-> st.lines \o <<record.header, record.sequence>>,
           kept_count |-> st.kept_count + 1]

RECURSIVE BatchLoop(_, _, _, _)
BatchLoop(st, batch, i, is_dna) ==
  IF i > Len(batch) THEN st
  ELSE BatchLoop(BatchStep(st, batch[i], is_dna), batch, i + 1, is_dna)

\* process_batch: the seen set and the written lines after the batch, and the
\* pair (kept_count, processed_count) it returns
process_batch(batch, seen_sequences, is_dna, lines) ==
  LET st == BatchLoop(BatchStart(seen_sequences, lines), batch, 1, is_dna)
  IN [seen_sequences |-> st.seen_sequences,
      lines |-> st.lines,
      kept |-> st.kept_count,
      processed |-> Len(batch)]

\* a run of process_streaming_duplicates that has not started
StreamIdle ==
  [seen_sequences |-> {}, current_header |-> <<>>, current_sequence |-> <<>>,
   batch_records |-> <<>>, total_processed |-> 0, total_kept |-> 0,
   line_count |-> 0, out |-> NoOutput, max_batch_len |-> 0]

\* File::open succeeded and the output writer is set up (optimized.rs:75-92)
StreamOpened(output) ==
  [StreamIdle EXCEPT
     !.out = IF output = "file" THEN [creates |-> 1, lines |-> <<>>] ELSE NoOutput]

\* the flush of a batch and the clear that follows it (optimized.rs:113-116,
\* 135-137)
StreamFlush(run, batch, is_dna) ==
  LET res == process_batch(batch, run.seen_sequences, is_dna, run.out.lines)
  IN [run EXCEPT !.seen_sequences = res.seen_sequences,
                 !.out.lines = res.lines,
                 !.total_kept = @ + res.kept,
                 !.total_processed = @ + res.processed,
                 !.batch_records = <<>>]

\* history of the run, not a variable of the code: the largest length the
\* batch buffer has had (max_batch_len)
NoteBatchLen(run, batch) ==
  [run EXCEPT !.max_batch_len = Max(@, Len(batch))]

\* a test that flushes only once the buffer has outgrown the batch size
BatchFullStrict(batch, batch_size) == Len(batch) > batch_size

\* if batch_records.len() >= batch_size (optimized.rs:112)
BatchFull(batch, batch_size) == Len(batch) >= batch_size

\* the body of the loop over reader.lines() (optimized.rs:93-124)
StreamLine(run, raw, is_dna, batch_size) ==
  LET line == trim(raw)
      counted == [run EXCEPT !.line_count = @ + 1]
  IN IF starts_with_gt(line)
     THEN LET pushed ==
                IF counted.current_header # <<>>
                THEN LET batch == Append(counted.batch_records,
                                         FastaRecord(counted.current_header,
                                                     counted.current_sequence))
                         noted == NoteBatchLen(counted, batch)
                     IN IF BatchFull(batch, batch_size)
                        THEN StreamFlush(noted, batch, is_dna)
                        ELSE [noted EXCEPT !.batch_records = batch]
                ELSE counted
          IN [pushed EXCEPT !.current_header = line, !.current_sequence = <<>>]
     ELSE IF line # <<>>
          THEN [counted EXCEPT !.current_sequence = @ \o line]
          ELSE counted

\* an end of input that flushes the buffer but forgets the record in progress
StreamFinishDropLast(run, is_dna) ==
  IF run.batch_records # <<>>
  THEN StreamFlush(run, run.batch_records, is_dna)
  ELSE run

\* the final record and the final batch (optimized.rs:126-138)
StreamFinish(run, is_dna) ==
  LET batch == IF run.current_header # <<>>
               THEN Append(run.batch_records,
                           FastaRecord(run.current_header, run.current_sequence))
               ELSE run.batch_records
      noted == NoteBatchLen(run, batch)
  IN IF batch # <<>>
     THEN StreamFlush(noted, batch, is_dna)
     ELSE noted

(***************************************************************************)
(* optimized.rs: remove_substrings_parallel                                *)
(***************************************************************************)
\* the loader's loop body (optimized.rs:207-223)
LoadLine(st, raw) ==
  LET line == trim(raw) IN
  IF starts_with_gt(line)
  THEN [records |-> IF st.current_header # <<>>
                    THEN Append(st.records,
                                FastaRecord(st.current_header, st.current_sequence))
                    ELSE st.records,
        current_header |-> line,
        current_sequence |-> <<>>]
  ELSE IF line # <<>>
       THEN [st EXCEPT !.current_sequence = @ \o line]
       ELSE st

\* the loop over reader.lines() (optimized.rs:207), for the lines lo..hi in
\* their order: the first half of them, then the second
RECURSIVE LoadLines(_, _, _, _)
LoadLines(st, lines, lo, hi) ==
  IF lo > hi THEN st
  ELSE IF lo = hi THEN LoadLine(st, lines[lo])
  ELSE LET mid == (lo + hi) \div 2
           half == LoadLines(st, lines, lo, mid)
       IN After(half, LoadLines(half, lines, mid + 1, hi))

\* the records the loader holds after end of input (optimized.rs:200-230)
load_records(lines) ==
  LET st == LoadLines(ParseStart, lines, 1, Len(lines)) IN
  IF st.current_header # <<>>
  THEN Append(st.records, FastaRecord(st.current_header, st.current_sequence))
  ELSE st.records

\* records.sort_by(...) of the loader (optimized.rs:236)
par_sort_by_len_desc(rs) == SortFrom(rs, MaxSeqLenOf(rs))

\* let batch_size = (records.len() / num_cores).max(1000) (optimized.rs:239)
ChunkSize(n, cores) == Max(n \div cores, MinBatchSize)

\* par_chunks(batch_size): the number of chunks of n records
NumChunks(n, size) == (n + size - 1) \div size

\* the records of chunk c (counted from 0) of the sorted list
ChunkOf(rs, size, c) ==
  SubSeq(rs, c * size + 1, IF (c + 1) * size < Len(rs) THEN (c + 1) * size ELSE Len(rs))

\* the pass over the global kept set under its lock (optimized.rs:257-273)
SubsumedByGlobal(kept_set, current_seq, is_dna) ==
  \E kept_seq \in kept_set :
    \/ kept_seq # current_seq /\ contains(kept_seq, current_seq)
    \/ is_dna /\ contains(kept_seq, opt_reverse_complement(current_seq))

\* the pass over the chunk's local list (optimized.rs:275-291)
SubsumedByLocal(local_kept, current_seq, is_dna) ==
  \E k \in 1..Len(local_kept) :
    LET local_seq == local_kept[k] IN
    \/ local_seq # current_seq /\ contains(local_seq, current_seq)
    \/ is_dna /\ contains(local_seq, opt_reverse_complement(current_seq))

\* a loop that leaves the chunk after its first record
ChunkAdvanceStop(task, chunk) == [task EXCEPT !.stage = "lock_merge"]

\* after the record at pos: the next record of the chunk, or the merge
\* (optimized.rs:252, 304)
ChunkAdvance(task, chunk) ==
  IF task.pos = Len(chunk)
  THEN [task EXCEPT !.stage = "lock_merge"]
  ELSE [task EXCEPT !.stage = "lock_kept", !.pos = @ + 1]

\* a guard that outlives its block: the lock stays with the worker
MutexReleaseNever(holders, c) == holders

\* the MutexGuard of worker c goes out of scope (optimized.rs:273, 301, 310, 313)
MutexRelease(holders, c) == holders \ {c}

\* the log line of every tenth chunk (optimized.rs:312)
LogEvery == 10

\* a resolution that takes the request as it is
ResolveCoresNoFloor(cores_arg, available_cores) ==
  IF cores_arg = <<>> THEN available_cores \div 2 ELSE cores_arg[1]

\* let num_cores = args.cores.unwrap_or(available_cores / 2).max(1)
\* (optimized.rs:343); cores_arg is <<>> for None and <<n>> for Some(n)
ResolveCores(cores_arg, available_cores) ==
  Max(IF cores_arg = <<>> THEN available_cores \div 2 ELSE cores_arg[1], 1)

\* a chunk task that has not started
ChunkIdle == [stage |-> "idle", pos |-> 1, local_kept |-> <<>>, is_substring |-> FALSE]

SetOfSeq(s) == {s[i] : i \in 1..Len(s)}

(***************************************************************************)
(* State                                                                   *)
(***************************************************************************)
VARIABLES
  pc,              \* position of the run
  program,         \* "basic" (main.rs) or "optimized" (optimized.rs)
  is_dna,          \* args.dna
  substring,       \* args.substring
  output,          \* args.output: "file" (Some(path)) or "stdout" (None)
  cores_arg,       \* args.cores: <<>> (None) or <<n>> (Some(n))
  available_cores, \* num_cpus::get()
  num_cores,       \* the resolved worker count
  input_file,      \* the input path: whether it can be opened, and its lines
  records,         \* the parsed (in the parallel path: sorted) record list
  final_records,   \* main.rs: final_records of main
  out,             \* the output destination of the basic and the parallel run
  dedup,           \* main.rs: remove_exact_duplicates in progress
  error,           \* the error main returned
  stream,          \* process_streaming_duplicates, one run per batch size
  batch_size,      \* remove_substrings_parallel: the chunk size
  kept_sequences,  \* remove_substrings_parallel: the global kept-sequence set
  final_vec,       \* remove_substrings_parallel: the global kept-record list
  chunks,          \* remove_substrings_parallel: the chunk tasks
  kept_lock,       \* the workers that hold the mutex of kept_sequences
  final_lock,      \* the workers that hold the mutex of final_records
  unique_records,  \* SpecFn: remove_exact_duplicates(records)
  unique_again,    \* SpecFn: remove_exact_duplicates(unique_records)
  kept_records,    \* SpecFn: remove_substring_sequences(records)
  rc_input,        \* SpecRC: the string
  rc_once,         \* SpecRC: its reverse complement, by either program
  rc_twice,        \* SpecRC: the reverse complement of that
  reparsed         \* SpecFasta: parse_fasta of the written output

cfgVars == <<program, is_dna, substring, output, cores_arg, available_cores,
             num_cores, input_file>>
basicVars == <<records, final_records, out>>
mainVars == <<dedup, error>>
streamVars == <<stream>>
parVars == <<batch_size, kept_sequences, final_vec, chunks, kept_lock, final_lock>>
fnVars == <<unique_records, unique_again, kept_records>>
rcVars == <<rc_input, rc_once, rc_twice>>
vars == <<pc, cfgVars, basicVars, mainVars, streamVars, parVars, fnVars, rcVars,
          reparsed>>

\* the batch sizes the streaming processor is run with, side by side
BatchSizes == 0..MaxBatch

\* the lines an input file of the programs is made of
ProgramLines == {<<">">>, <<"A">>, <<"T">>, <<" ">>}

MissingFile == [exists |-> FALSE, lines |-> <<>>]
FileOf(lines) == [exists |-> TRUE, lines |-> lines]

\* args.input and the path of args.output
InputPath == "input.fasta"
OutputPath == "output.fasta"

NoError == [cause |-> "none", context |-> <<>>]

\* main.rs:36-37: File::open(filename).with_context(..)?
basic_open_error ==
  [cause |-> "open", context |-> <<"Failed to open file: ", InputPath>>]

\* main.rs:154-155: File::create(filename).with_context(..)?
basic_create_error ==
  [cause |-> "create", context |-> <<"Failed to create output file: ", OutputPath>>]

\* optimized.rs:75, 201: File::open(filename)?
opt_open_error == [cause |-> "open", context |-> <<>>]

\* optimized.rs:87, 324: File::create(output_path)?
opt_create_error == [cause |-> "create", context |-> <<>>]

\* remove_exact_duplicates of main.rs before its loop
DedupIdle == [st |-> DedupStart, pos |-> 1]

\* num_cpus::get() of the machines considered
AvailableCores == {1, 2 * MaxCores}

\* the values of --cores
CoresArgs == {<<>>} \cup {<<n>> : n \in 0..MaxCores}

IdleMain ==
  /\ dedup = DedupIdle
  /\ error = NoError
  /\ kept_lock = {}
  /\ final_lock = {}

IdleProgram ==
  /\ records = <<>>
  /\ final_records = <<>>
  /\ out = NoOutput
  /\ stream = [b \in BatchSizes |-> StreamIdle]
  /\ batch_size = 0
  /\ kept_sequences = {}
  /\ final_vec = <<>>
  /\ chunks = <<>>
  /\ IdleMain

IdleFn ==
  /\ unique_records = <<>>
  /\ unique_again = <<>>
  /\ kept_records = <<>>

IdleRc ==
  /\ rc_input = <<>>
  /\ rc_once = <<>>
  /\ rc_twice = <<>>

\* a run that asks for no workers, on a machine of one core
DefaultEnv ==
  /\ cores_arg = <<>>
  /\ available_cores = 1
  /\ num_cores = 1

(***************************************************************************)
(* Spec: the two programs, from the parsed arguments to the exit           *)
(***************************************************************************)
\* the arguments and the environment of a run.  The worker count is read by
\* the parallel path only, and num_cpus::get() only when --cores is absent:
\* elsewhere they are held at one value.
Init ==
  /\ pc = "start"
  /\ program \in {"basic", "optimized"}
  /\ is_dna \in BOOLEAN
  /\ substring \in BOOLEAN
  /\ output \in {"file", "stdout"}
  /\ cores_arg \in CoresArgs
  /\ available_cores \in AvailableCores
  /\ cores_arg # <<>> => available_cores = 1
  /\ (program = "basic" \/ ~substring) => (cores_arg = <<>> /\ available_cores = 1)
  /\ num_cores = ResolveCores(cores_arg, available_cores)
  /\ input_file \in {MissingFile} \cup {FileOf(l) : l \in SeqsUpTo(ProgramLines, MaxLines)}
  /\ IdleProgram
  /\ IdleFn
  /\ IdleRc
  /\ reparsed = <<>>

\* main.rs:174-176: parse_fasta(&args.input)?
BasicParse ==
  /\ pc = "start"
  /\ program = "basic"
  /\ IF input_file.exists
     THEN /\ records' = parse_fasta(input_file.lines)
          /\ pc' = "parsed"
          /\ error' = error
     ELSE /\ records' = records
          /\ pc' = "error"
          /\ error' = basic_open_error
  /\ UNCHANGED <<cfgVars, final_records, out, dedup, streamVars, parVars, fnVars,
                 rcVars, reparsed>>

\* main.rs:72-97: the body of the loop of remove_exact_duplicates, for the
\* next record
BasicDedupeStep ==
  /\ pc = "parsed"
  /\ dedup.pos <= Len(records)
  /\ dedup' = [st |-> DedupStep(dedup.st, records[dedup.pos], is_dna),
               pos |-> dedup.pos + 1]
  /\ UNCHANGED <<pc, cfgVars, basicVars, error, streamVars, parVars, fnVars, rcVars,
                 reparsed>>

\* main.rs:178-180: remove_exact_duplicates returns unique_records
BasicDedupe ==
  /\ pc = "parsed"
  /\ dedup.pos > Len(records)
  /\ final_records' = dedup.st.unique_records
  /\ pc' = "deduped"
  /\ UNCHANGED <<cfgVars, records, out, mainVars, streamVars, parVars, fnVars, rcVars,
                 reparsed>>

\* main.rs:182-186
BasicSubstring ==
  /\ pc = "deduped"
  /\ substring
  /\ final_records' = remove_substring_sequences(final_records, is_dna)
  /\ pc' = "substringed"
  /\ UNCHANGED <<cfgVars, records, out, mainVars, streamVars, parVars, fnVars, rcVars,
                 reparsed>>

\* whether File::create of the output path succeeds is the file system's choice
CreateOutcomes == BOOLEAN

\* main.rs:188-191 and 150-156
BasicWrite ==
  /\ IF substring THEN pc = "substringed" ELSE pc = "deduped"
  /\ \E creatable \in CreateOutcomes :
     IF output = "file" /\ ~creatable
     THEN /\ out' = out
          /\ error' = basic_create_error
          /\ pc' = "error"
     ELSE /\ out' = write_fasta(final_records, output, out)
          /\ error' = error
          /\ pc' = "done"
  /\ UNCHANGED <<cfgVars, records, final_records, dedup, streamVars, parVars, fnVars,
                 rcVars, reparsed>>

\* a set-up that creates the output file before it opens the input
StreamSetupCreateFirst(file, out_arg, creatable) ==
  [ok |-> file.exists,
   run |-> StreamOpened(out_arg),
   error |-> IF file.exists THEN NoError ELSE opt_open_error]

\* optimized.rs:75-90: File::open(filename)?, then the output writer
StreamSetup(file, out_arg, creatable) ==
  IF ~file.exists
  THEN [ok |-> FALSE, run |-> StreamIdle, error |-> opt_open_error]
  ELSE IF out_arg = "file" /\ ~creatable
       THEN [ok |-> FALSE, run |-> StreamIdle, error |-> opt_create_error]
       ELSE [ok |-> TRUE, run |-> StreamOpened(out_arg), error |-> NoError]

\* optimized.rs:354 and 75-90, for every batch size
StreamOpen ==
  /\ pc = "start"
  /\ program = "optimized"
  /\ ~substring
  /\ \E creatable \in CreateOutcomes :
     LET set == StreamSetup(input_file, output, creatable) IN
     /\ stream' = [b \in BatchSizes |-> set.run]
     /\ error' = set.error
     /\ pc' = IF set.ok THEN "streaming" ELSE "error"
  /\ UNCHANGED <<cfgVars, basicVars, dedup, parVars, fnVars, rcVars, reparsed>>

\* the number of lines read so far (the runs read in step)
LinesRead == stream[0].line_count

\* optimized.rs:93-124: the next line, in every run
StreamRead ==
  /\ pc = "streaming"
  /\ LinesRead < Len(input_file.lines)
  /\ stream' = [b \in BatchSizes |->
                  StreamLine(stream[b], input_file.lines[LinesRead + 1], is_dna, b)]
  /\ UNCHANGED <<pc, cfgVars, basicVars, mainVars, parVars, fnVars, rcVars, reparsed>>

\* optimized.rs:126-143: end of input, in every run
StreamEnd ==
  /\ pc = "streaming"
  /\ LinesRead = Len(input_file.lines)
  /\ stream' = [b \in BatchSizes |-> StreamFinish(stream[b], is_dna)]
  /\ pc' = "done"
  /\ UNCHANGED <<cfgVars, basicVars, mainVars, parVars, fnVars, rcVars, reparsed>>

\* optimized.rs:351 and 190-243: the pool, the load, the sort, the chunk size
ParLoad ==
  /\ pc = "start"
  /\ program = "optimized"
  /\ substring
  /\ IF input_file.exists
     THEN LET rs == par_sort_by_len_desc(load_records(input_file.lines))
              size == ChunkSize(Len(rs), num_cores)
          IN /\ records' = rs
             /\ batch_size' = size
             /\ chunks' = [c \in 0..(NumChunks(Len(rs), size) - 1) |-> ChunkIdle]
             /\ error' = error
             /\ pc' = "chunks"
     ELSE /\ UNCHANGED <<records, batch_size, chunks>>
          /\ error' = opt_open_error
          /\ pc' = "error"
  /\ UNCHANGED <<cfgVars, final_records, out, dedup, streamVars, kept_sequences,
                 final_vec, kept_lock, final_lock, fnVars, rcVars, reparsed>>

\* the chunk tasks a worker of the pool is executing
Running == {c \in DOMAIN chunks : chunks[c].stage \notin {"idle", "done"}}

\* the variables no step of a chunk task changes
chunkFrame == <<pc, cfgVars, basicVars, mainVars, streamVars, batch_size, fnVars,
                rcVars, reparsed>>

\* a worker of the pool takes chunk c (optimized.rs:249-252)
ChunkStart(c) ==
  /\ pc = "chunks"
  /\ chunks[c].stage = "idle"
  /\ Cardinality(Running) < num_cores
  /\ chunks' = [chunks EXCEPT ![c] = [@ EXCEPT !.stage = "lock_kept"]]
  /\ UNCHANGED <<chunkFrame, kept_sequences, final_vec, kept_lock, final_lock>>

\* optimized.rs:259: kept_sequences.lock(), for the next record of chunk c
ChunkLockKept(c) ==
  /\ pc = "chunks"
  /\ chunks[c].stage = "lock_kept"
  /\ kept_lock = {}
  /\ kept_lock' = {c}
  /\ chunks' = [chunks EXCEPT ![c] = [@ EXCEPT !.stage = "global_pass"]]
  /\ UNCHANGED <<chunkFrame, kept_sequences, final_vec, final_lock>>

\* optimized.rs:260-297: the pass over the global set, the end of its block,
\* then the pass over the local list and the push onto it
ChunkCheckGlobal(c) ==
  /\ pc = "chunks"
  /\ chunks[c].stage = "global_pass"
  /\ LET chunk == ChunkOf(records, batch_size, c)
         current_seq == chunk[chunks[c].pos].sequence
         is_sub == \/ SubsumedByGlobal(kept_sequences, current_seq, is_dna)
                   \/ SubsumedByLocal(chunks[c].local_kept, current_seq, is_dna)
     IN chunks' = [chunks EXCEPT ![c] =
                     IF is_sub
                     THEN ChunkAdvance([@ EXCEPT !.is_substring = TRUE], chunk)
                     ELSE [@ EXCEPT !.is_substring = FALSE,
                                    !.local_kept = Append(@, current_seq),
                                    !.stage = "lock_final"]]
  /\ kept_lock' = MutexRelease(kept_lock, c)
  /\ UNCHANGED <<chunkFrame, kept_sequences, final_vec, final_lock>>

\* optimized.rs:299: final_records.lock(), for a record that is kept
ChunkLockFinal(c) ==
  /\ pc = "chunks"
  /\ chunks[c].stage = "lock_final"
  /\ final_lock = {}
  /\ final_lock' = {c}
  /\ chunks' = [chunks EXCEPT ![c] = [@ EXCEPT !.stage = "push_final"]]
  /\ UNCHANGED <<chunkFrame, kept_sequences, final_vec, kept_lock>>

\* a push that stores the record twice
FinalPushTwice(list, record) == Append(Append(list, record), record)

\* final_vec.push(record.clone()) (optimized.rs:299)
FinalPush(list, record) == Append(list, record)

\* optimized.rs:300-302: the push onto the global list and the end of its block
ChunkPushFinal(c) ==
  /\ pc = "chunks"
  /\ chunks[c].stage = "push_final"
  /\ LET chunk == ChunkOf(records, batch_size, c) IN
     /\ final_vec' = FinalPush(final_vec, chunk[chunks[c].pos])
     /\ chunks' = [chunks EXCEPT ![c] = ChunkAdvance(@, chunk)]
  /\ final_lock' = MutexRelease(final_lock, c)
  /\ UNCHANGED <<chunkFrame, kept_sequences, kept_lock>>

\* optimized.rs:306: kept_sequences.lock(), after the last record of chunk c
ChunkLockMerge(c) ==
  /\ pc = "chunks"
  /\ chunks[c].stage = "lock_merge"
  /\ kept_lock = {}
  /\ kept_lock' = {c}
  /\ chunks' = [chunks EXCEPT ![c] = [@ EXCEPT !.stage = "merge"]]
  /\ UNCHANGED <<chunkFrame, kept_sequences, final_vec, final_lock>>

\* a merge that finds the local list already empty
ChunkMergeNothing(c) ==
  /\ pc = "chunks"
  /\ chunks[c].stage = "merge"
  /\ kept_sequences' = kept_sequences
  /\ kept_lock' = MutexRelease(kept_lock, c)
  /\ chunks' = [chunks EXCEPT ![c] =
                  [@ EXCEPT !.stage = IF c % LogEvery = 0 THEN "lock_count" ELSE "done"]]
  /\ UNCHANGED <<chunkFrame, final_vec, final_lock>>

\* optimized.rs:307-312: the merge of the local list into the global set
ChunkMerge(c) ==
  /\ pc = "chunks"
  /\ chunks[c].stage = "merge"
  /\ kept_sequences' = kept_sequences \cup SetOfSeq(chunks[c].local_kept)
  /\ kept_lock' = MutexRelease(kept_lock, c)
  /\ chunks' = [chunks EXCEPT ![c] =
                  [@ EXCEPT !.stage = IF c % LogEvery = 0 THEN "lock_count" ELSE "done"]]
  /\ UNCHANGED <<chunkFrame, final_vec, final_lock>>

\* optimized.rs:313: final_records.lock() of the log line of every tenth chunk
ChunkLockCount(c) ==
  /\ pc = "chunks"
  /\ chunks[c].stage = "lock_count"
  /\ final_lock = {}
  /\ final_lock' = {c}
  /\ chunks' = [chunks EXCEPT ![c] = [@ EXCEPT !.stage = "count"]]
  /\ UNCHANGED <<chunkFrame, kept_sequences, final_vec, kept_lock>>

\* optimized.rs:313-316: the length is read, the guard dropped, the line logged
ChunkLog(c) ==
  /\ pc = "chunks"
  /\ chunks[c].stage = "count"
  /\ final_lock' = MutexRelease(final_lock, c)
  /\ chunks' = [chunks EXCEPT ![c] = [@ EXCEPT !.stage = "done"]]
  /\ UNCHANGED <<chunkFrame, kept_sequences, final_vec, kept_lock>>

\* a write that does not wait for the chunk tasks
ParWriteEarly ==
  /\ pc = "chunks"
  /\ out = NoOutput
  /\ \E creatable \in CreateOutcomes :
     IF output = "file" /\ ~creatable
     THEN /\ out' = out
          /\ error' = opt_create_error
          /\ pc' = "error"
     ELSE /\ out' = IF output = "file"
                    THEN [creates |-> out.creates + 1, lines |-> RecordLines(final_vec)]
                    ELSE [out EXCEPT !.lines = @ \o RecordLines(final_vec)]
          /\ error' = error
          /\ pc' = IF \A c \in DOMAIN chunks : chunks[c].stage = "done"
                   THEN "done" ELSE pc
  /\ UNCHANGED <<cfgVars, records, final_records, dedup, streamVars, parVars, fnVars,
                 rcVars, reparsed>>

\* optimized.rs:319-334: the write, once for_each has returned
ParWrite ==
  /\ pc = "chunks"
  /\ \A c \in DOMAIN chunks : chunks[c].stage = "done"
  /\ \E creatable \in CreateOutcomes :
     IF output = "file" /\ ~creatable
     THEN /\ out' = out
          /\ error' = opt_create_error
          /\ pc' = "error"
     ELSE /\ out' = IF output = "file"
                    THEN [creates |-> out.creates + 1, lines |-> RecordLines(final_vec)]
                    ELSE [out EXCEPT !.lines = @ \o RecordLines(final_vec)]
          /\ error' = error
          /\ pc' = "done"
  /\ UNCHANGED <<cfgVars, records, final_records, dedup, streamVars, parVars, fnVars,
                 rcVars, reparsed>>

\* a step of chunk task c
ChunkNext(c) ==
  \/ ChunkStart(c)
  \/ ChunkLockKept(c)
  \/ ChunkCheckGlobal(c)
  \/ ChunkLockFinal(c)
  \/ ChunkPushFinal(c)
  \/ ChunkLockMerge(c)
  \/ ChunkMerge(c)
  \/ ChunkLockCount(c)
  \/ ChunkLog(c)

Next ==
  \/ BasicParse
  \/ BasicDedupeStep
  \/ BasicDedupe
  \/ BasicSubstring
  \/ BasicWrite
  \/ StreamOpen
  \/ StreamRead
  \/ StreamEnd
  \/ ParLoad
  \/ \E c \in DOMAIN chunks : ChunkStart(c)
  \/ \E c \in DOMAIN chunks : ChunkLockKept(c)
  \/ \E c \in DOMAIN chunks : ChunkCheckGlobal(c)
  \/ \E c \in DOMAIN chunks : ChunkLockFinal(c)
  \/ \E c \in DOMAIN chunks : ChunkPushFinal(c)
  \/ \E c \in DOMAIN chunks : ChunkLockMerge(c)
  \/ \E c \in DOMAIN chunks : ChunkMerge(c)
  \/ \E c \in DOMAIN chunks : ChunkLockCount(c)
  \/ \E c \in DOMAIN chunks : ChunkLog(c)
  \/ ParWrite

Spec == Init /\ [][Next]_vars

\* the exit status of the process: main returned Ok or Err
ExitStatus == IF pc = "error" THEN 1 ELSE 0

(***************************************************************************)
(* SpecChunks: the parallel remover on inputs of more than one chunk       *)
(***************************************************************************)
\* A chunk holds at least MinBatchSize records, so an input of two chunks has
\* more records than that.  The inputs here are: one record GG, one record of
\* one base, records G up to MinBatchSize records in all, and a last record of
\* one base.  Sorted by length the last record is the second chunk.  GG and
\* the records G only fill the first chunk: each G is dropped against GG, in
\* every schedule.
PadLong == <<"G", "G">>
PadFill == <<"G">>

\* the lines of records with header h and the sequences ss
LinesOf(h, ss) ==
  [i \in 1..(2 * Len(ss)) |-> IF i % 2 = 1 THEN h ELSE ss[i \div 2]]

PadLines(first, last) ==
  LinesOf(<<">", "p">>, <<PadLong, first>>)
    \o LinesOf(<<">">>, [i \in 1..(MinBatchSize - 2) |-> PadFill])
    \o LinesOf(<<">", "s">>, <<last>>)

\* a: the reverse complement of a is T, that of T is A
\* A, G: G lies within GG
\* A, C: the reverse complement of C lies within GG
PaddedFiles ==
  {FileOf(PadLines(<<"a">>, <<"T">>)),
   FileOf(PadLines(<<"A">>, <<"G">>)),
   FileOf(PadLines(<<"A">>, <<"C">>))}

InitChunks ==
  /\ pc = "start"
  /\ program = "optimized"
  /\ substring = TRUE
  /\ is_dna \in BOOLEAN
  /\ output = "file"
  /\ cores_arg \in {<<n>> : n \in 1..MaxCores}
  /\ available_cores = 1
  /\ num_cores = ResolveCores(cores_arg, available_cores)
  /\ input_file \in {MissingFile} \cup PaddedFiles
  /\ IdleProgram
  /\ IdleFn
  /\ IdleRc
  /\ reparsed = <<>>

NextChunks ==
  \/ ParLoad
  \/ \E c \in DOMAIN chunks : ChunkStart(c)
  \/ \E c \in DOMAIN chunks : ChunkLockKept(c)
  \/ \E c \in DOMAIN chunks : ChunkCheckGlobal(c)
  \/ \E c \in DOMAIN chunks : ChunkLockFinal(c)
  \/ \E c \in DOMAIN chunks : ChunkPushFinal(c)
  \/ \E c \in DOMAIN chunks : ChunkLockMerge(c)
  \/ \E c \in DOMAIN chunks : ChunkMerge(c)
  \/ \E c \in DOMAIN chunks : ChunkLockCount(c)
  \/ \E c \in DOMAIN chunks : ChunkLog(c)
  \/ ParWrite

SpecChunks == InitChunks /\ [][NextChunks]_vars

\* the runs of the fair specification: one padded input, split in two chunks
\* when two cores are asked for
InitFair ==
  /\ InitChunks
  /\ is_dna = FALSE
  /\ input_file \in {MissingFile, FileOf(PadLines(<<"A">>, <<"G">>))}

\* a step of some worker of the pool
ChunkSteps == \E c \in DOMAIN chunks : ChunkNext(c)

\* The chunk runs under a fair scheduler: the pool runs every task it was
\* given, a thread waiting in lock() proceeds once the mutex is free, and the
\* calling thread goes on to the write when for_each returns.
FairChunks ==
  /\ InitFair /\ [][NextChunks]_vars
  /\ WF_vars(ChunkSteps)
  /\ WF_vars(ParWrite)

(***************************************************************************)
(* SpecRC: reverse_complement of either program, applied once and twice    *)
(***************************************************************************)
InitRC ==
  /\ pc = "rc"
  /\ rc_input \in StringsUpTo(DnaChars, MaxRcLen)
  /\ rc_once = <<>>
  /\ rc_twice = <<>>
  /\ program = "basic"
  /\ is_dna = TRUE
  /\ substring = FALSE
  /\ output = "stdout"
  /\ DefaultEnv
  /\ input_file = MissingFile
  /\ IdleProgram
  /\ IdleFn
  /\ reparsed = <<>>

RcApply ==
  /\ pc = "rc"
  /\ rc_once' = [basic |-> reverse_complement(rc_input),
                 optimized |-> opt_reverse_complement(rc_input)]
  /\ pc' = "rc_once"
  /\ UNCHANGED <<cfgVars, mainVars, basicVars, streamVars, parVars, fnVars, rc_input, rc_twice,
                 reparsed>>

RcApplyAgain ==
  /\ pc = "rc_once"
  /\ rc_twice' = [basic |-> reverse_complement(rc_once.basic),
                  optimized |-> opt_reverse_complement(rc_once.optimized)]
  /\ pc' = "rc_twice"
  /\ UNCHANGED <<cfgVars, mainVars, basicVars, streamVars, parVars, fnVars, rc_input, rc_once,
                 reparsed>>

NextRC ==
  \/ RcApply
  \/ RcApplyAgain

SpecRC == InitRC /\ [][NextRC]_vars

(***************************************************************************)
(* SpecFn: the in-memory removers of main.rs on arbitrary record lists     *)
(***************************************************************************)
\* the sequences of the records: every string over A and T up to the bound,
\* and two lower-case bases
FnSequences == StringsUpTo({"A", "T"}, MaxSeqLen) \cup {<<"a">>, <<"t">>}

Digits == <<"1", "2", "3", "4", "5", "6", "7", "8", "9">>

\* the record list with the given sequences; the header of a record names its
\* position in the list
RecordsOf(ss) == [i \in 1..Len(ss) |-> FastaRecord(<<">", Digits[i]>>, ss[i])]

InitFn ==
  /\ pc = "fn"
  /\ records \in {RecordsOf(ss) : ss \in SeqsUpTo(FnSequences, MaxRecs)}
  /\ is_dna \in BOOLEAN
  /\ program = "basic"
  /\ substring = TRUE
  /\ output = "stdout"
  /\ DefaultEnv
  /\ input_file = MissingFile
  /\ final_records = <<>>
  /\ out = NoOutput
  /\ stream = [b \in BatchSizes |-> StreamIdle]
  /\ batch_size = 0
  /\ kept_sequences = {}
  /\ final_vec = <<>>
  /\ chunks = <<>>
  /\ IdleMain
  /\ IdleFn
  /\ IdleRc
  /\ reparsed = <<>>

FnDedupe ==
  /\ pc = "fn"
  /\ unique_records' = remove_exact_duplicates(records, is_dna)
  /\ pc' = "fn_deduped"
  /\ UNCHANGED <<cfgVars, mainVars, basicVars, streamVars, parVars, unique_again, kept_records,
                 rcVars, reparsed>>

FnDedupeAgain ==
  /\ pc = "fn_deduped"
  /\ unique_again' = remove_exact_duplicates(unique_records, is_dna)
  /\ pc' = "fn_deduped_twice"
  /\ UNCHANGED <<cfgVars, mainVars, basicVars, streamVars, parVars, unique_records, kept_records,
                 rcVars, reparsed>>

FnSubstring ==
  /\ pc = "fn"
  /\ kept_records' = remove_substring_sequences(records, is_dna)
  /\ pc' = "fn_substringed"
  /\ UNCHANGED <<cfgVars, mainVars, basicVars, streamVars, parVars, unique_records, unique_again,
                 rcVars, reparsed>>

NextFn ==
  \/ FnDedupe
  \/ FnDedupeAgain
  \/ FnSubstring

SpecFn == InitFn /\ [][NextFn]_vars

(***************************************************************************)
(* SpecFasta: parse_fasta, write_fasta and parse_fasta again               *)
(***************************************************************************)
FastaChars == {">", " ", "A", "\n"}

\* the index of the first line feed of a text, 0 if it has none
FirstLineFeed(text) ==
  IF \E i \in 1..Len(text) : text[i] = "\n"
  THEN CHOOSE i \in 1..Len(text) :
         text[i] = "\n" /\ \A j \in 1..(i - 1) : text[j] # "\n"
  ELSE 0

\* BufRead::lines: the text split at line feeds; a final line feed ends the
\* last line and starts no other
RECURSIVE read_lines(_)
read_lines(text) ==
  IF text = <<>> THEN <<>>
  ELSE LET i == FirstLineFeed(text) IN
       IF i = 0 THEN <<text>>
       ELSE <<SubSeq(text, 1, i - 1)>> \o read_lines(SubSeq(text, i + 1, Len(text)))

\* the text that writeln! leaves for the lines written
RECURSIVE written_text(_)
written_text(lines) ==
  IF lines = <<>> THEN <<>>
  ELSE Head(lines) \o <<"\n">> \o written_text(Tail(lines))

InitFasta ==
  /\ pc = "fasta"
  /\ input_file \in {FileOf(read_lines(t)) : t \in StringsUpTo(FastaChars, MaxTextLen)}
  /\ output \in {"file", "stdout"}
  /\ program = "basic"
  /\ is_dna = FALSE
  /\ substring = FALSE
  /\ DefaultEnv
  /\ IdleProgram
  /\ IdleFn
  /\ IdleRc
  /\ reparsed = <<>>

FastaParse ==
  /\ pc = "fasta"
  /\ records' = parse_fasta(input_file.lines)
  /\ pc' = "fasta_parsed"
  /\ UNCHANGED <<cfgVars, mainVars, final_records, out, streamVars, parVars, fnVars, rcVars,
                 reparsed>>

FastaWrite ==
  /\ pc = "fasta_parsed"
  /\ out' = write_fasta(records, output, out)
  /\ pc' = "fasta_written"
  /\ UNCHANGED <<cfgVars, mainVars, records, final_records, streamVars, parVars, fnVars, rcVars,
                 reparsed>>

FastaReparse ==
  /\ pc = "fasta_written"
  /\ reparsed' = parse_fasta(read_lines(written_text(out.lines)))
  /\ pc' = "fasta_reparsed"
  /\ UNCHANGED <<cfgVars, mainVars, basicVars, streamVars, parVars, fnVars, rcVars>>

NextFasta ==
  \/ FastaParse
  \/ FastaWrite
  \/ FastaReparse

SpecFasta == InitFasta /\ [][NextFasta]_vars

(***************************************************************************)
(* Reference notions of the properties                                     *)
(***************************************************************************)
\* no two records of the list have identical sequences
NoEqualSequences(rs) ==
  \A i, j \in 1..Len(rs) : i # j => rs[i].sequence # rs[j].sequence

\* the indices of the header lines of a file: the lines that start with '>'
\* once trimmed
HeaderIdx(lines) == {i \in 1..Len(lines) : starts_with_gt(trim(lines[i]))}

HeaderCount(lines) == Cardinality(HeaderIdx(lines))

\* the index of the k-th header line
NthHeader(lines, k) ==
  CHOOSE i \in HeaderIdx(lines) : Cardinality({j \in HeaderIdx(lines) : j <= i}) = k

\* the index of the first header line after line i, or one past the end
NextHeader(lines, i) ==
  IF \E j \in HeaderIdx(lines) : j > i
  THEN CHOOSE j \in HeaderIdx(lines) :
         j > i /\ \A m \in HeaderIdx(lines) : m > i => j <= m
  ELSE Len(lines) + 1

\* the trimmed lines from..to, joined without separator
RECURSIVE JoinTrimmed(_, _, _)
JoinTrimmed(lines, from, to) ==
  IF from > to THEN <<>>
  ELSE trim(lines[from]) \o JoinTrimmed(lines, from + 1, to)

\* one (header, concatenated sequence) pair per header line, in input order
ExpectedPairs(lines) ==
  [k \in 1..HeaderCount(lines) |->
     LET h == NthHeader(lines, k) IN
     FastaRecord(trim(lines[h]), JoinTrimmed(lines, h + 1, NextHeader(lines, h) - 1))]

\* the records of the list rs that are members of the list ks, in the order
\* of rs
Restrict(rs, ks) == SelectSeq(rs, LAMBDA r : \E k \in 1..Len(ks) : ks[k] = r)

(***************************************************************************)
(* Claims                                                                  *)
(***************************************************************************)
StreamingPath == program = "optimized" /\ ~substring
ParallelPath == program = "optimized" /\ substring

\* C1: in either program and every mode, the written output never holds two
\* records whose sequences are identical strings.
C1_OutputHasNoEqualSequences ==
  pc = "done" =>
    /\ NoEqualSequences(OutputRecords(out.lines))
    /\ \A b \in BatchSizes : NoEqualSequences(OutputRecords(stream[b].out.lines))

\* C2: with num_cores = 1 the records retained by the parallel substring
\* remover are those of remove_substring_sequences on the same record list,
\* in the same order.
C2_SingleCoreEqualsSequential ==
  (pc = "done" /\ ParallelPath /\ num_cores = 1) =>
    final_vec = remove_substring_sequences(records, is_dna)

\* C3: the streaming runs of one input with any two batch sizes >= 1 keep the
\* same number of records and the same set of sequences.
C3_BatchSizeInvisible ==
  (pc = "done" /\ StreamingPath) =>
    \A b1, b2 \in BatchSizes \ {0} :
      /\ stream[b1].total_kept = stream[b2].total_kept
      /\ Len(stream[b1].out.lines) = Len(stream[b2].out.lines)
      /\ SequenceSet(OutputRecords(stream[b1].out.lines))
           = SequenceSet(OutputRecords(stream[b2].out.lines))

\* a run in which the batch sizes flushed differently and a record was dropped
C3_Witness ==
  /\ pc = "done"
  /\ StreamingPath
  /\ stream[1].max_batch_len = 1
  /\ stream[2].max_batch_len = 2
  /\ stream[MaxBatch].max_batch_len = 3
  /\ stream[1].total_processed = 3
  /\ stream[1].total_kept = 2

\* C4: no two distinct records returned by remove_substring_sequences are such
\* that the sequence of one is a substring of, or equal to, that of the other.
C4_NoRetainedSubstring ==
  pc = "fn_substringed" =>
    \A i, j \in 1..Len(kept_records) :
      i # j => ~contains(kept_records[i].sequence, kept_records[j].sequence)

\* an unsorted input from which a record was dropped and two were retained
C4_Witness ==
  /\ pc = "fn_substringed"
  /\ Len(records) = 3
  /\ Len(kept_records) = 2
  /\ Len(records[1].sequence) < Len(records[3].sequence)

\* C5: remove_exact_duplicates applied to its own result returns that result.
C5_DedupeIdempotent ==
  pc = "fn_deduped_twice" => unique_again = unique_records

\* a DNA-mode run whose first pass dropped a record and kept two
C5_Witness ==
  /\ pc = "fn_deduped_twice"
  /\ is_dna
  /\ Len(records) = 3
  /\ Len(unique_records) = 2

\* C6: when the input cannot be opened the run ends with an error and a
\* non-zero exit, and no output file has been created or truncated, in the
\* basic program, the streaming path and the parallel path.
C6_MissingInputLeavesOutput ==
  ~input_file.exists =>
    /\ pc \in {"start", "error"}
    /\ pc = "error" => (ExitStatus = 1 /\ ~ENABLED Next)
    /\ out = NoOutput
    /\ \A b \in BatchSizes : stream[b].out = NoOutput

\* the streaming path has failed on a missing input, with an output path given
C6_Witness ==
  /\ pc = "error"
  /\ ~input_file.exists
  /\ StreamingPath
  /\ output = "file"

\* C7: write_fasta(parse_fasta(input)) emits one (header, concatenated
\* sequence) pair per header line of the input, in input order, and parsing
\* the written output gives parse_fasta(input) again.
C7_ParseWriteRoundTrip ==
  /\ pc \in {"fasta_written", "fasta_reparsed"} =>
       /\ Len(out.lines) = 2 * HeaderCount(input_file.lines)
       /\ OutputRecords(out.lines) = ExpectedPairs(input_file.lines)
  /\ pc = "fasta_reparsed" =>
       /\ reparsed = records
       /\ reparsed = parse_fasta(input_file.lines)

\* a round trip with a record of empty sequence and a record whose sequence
\* was joined from two lines
C7_Witness ==
  /\ pc = "fasta_reparsed"
  /\ Len(input_file.lines) = 4
  /\ Len(reparsed) = 2
  /\ reparsed[1].sequence = <<>>
  /\ Len(reparsed[2].sequence) = 2

\* C8: over A, T, G, C, N, - in any letter case, reverse_complement applied
\* twice gives the upper-cased string, and its output is upper-case.
C8_ReverseComplementTwice ==
  /\ pc \in {"rc_once", "rc_twice"} =>
       /\ IsUpperCase(rc_once.basic)
       /\ IsUpperCase(rc_once.optimized)
  /\ pc = "rc_twice" =>
       /\ rc_twice.basic = UpperCase(rc_input)
       /\ rc_twice.optimized = UpperCase(rc_input)

\* a mixed-case string that is not its own reverse complement, applied twice
C8_Witness ==
  /\ pc = "rc_twice"
  /\ rc_input = <<"a", "c", "-">>
  /\ rc_once.basic = <<"-", "G", "T">>

\* C9: parsing yields one record per header line; content before the first
\* header is discarded; an input without header line gives no output record,
\* in the basic program, the streaming path and the parallel path.
C9_OneRecordPerHeader ==
  LET lines == input_file.lines
      expected == ExpectedPairs(lines)
  IN /\ (program = "basic" /\ pc \in {"parsed", "deduped", "substringed", "done"}) =>
          /\ Len(records) = HeaderCount(lines)
          /\ records = expected
     /\ (ParallelPath /\ pc \in {"chunks", "done"}) =>
          /\ Len(records) = HeaderCount(lines)
          /\ records = par_sort_by_len_desc(expected)
     /\ (StreamingPath /\ pc = "done") =>
          \A b \in BatchSizes :
            /\ stream[b].total_processed = HeaderCount(lines)
            /\ \A r \in SetOfSeq(OutputRecords(stream[b].out.lines)) :
                 r \in SetOfSeq(expected)
     /\ (pc = "done" /\ HeaderCount(lines) = 0) =>
          /\ out.lines = <<>>
          /\ \A b \in BatchSizes : stream[b].out.lines = <<>>

\* a finished streaming run on an input with content but no header line
C9_Witness ==
  /\ pc = "done"
  /\ StreamingPath
  /\ HeaderCount(input_file.lines) = 0
  /\ \E i \in 1..Len(input_file.lines) : input_file.lines[i] = <<"A">>

\* the forms under which a record is looked up in the seen set
Forms(r, dna) ==
  {r.sequence} \cup (IF dna THEN {reverse_complement(r.sequence)} ELSE {})

\* record i of the input is in the result
Kept(i) == \E k \in 1..Len(unique_records) : unique_records[k] = records[i]

\* C10: remove_exact_duplicates returns a subsequence of its input in which
\* the first record of a sequence value is the one kept, no two kept records
\* have equal sequences, in DNA mode none is the reverse complement of
\* another, and every dropped record matches an earlier kept record by its
\* sequence or (DNA mode) reverse complement; with DNA mode off records that
\* are reverse complements of each other, and not equal, do not drop each
\* other.
C10_DedupeKeepsFirst ==
  pc \in {"fn_deduped", "fn_deduped_twice"} =>
    LET n == Len(records) IN
    /\ unique_records = Restrict(records, unique_records)
    /\ \A i \in 1..n :
         Kept(i) => \A j \in 1..(i - 1) : records[j].sequence # records[i].sequence
    /\ NoEqualSequences(unique_records)
    /\ is_dna =>
         \A i, j \in 1..Len(unique_records) :
           i # j => unique_records[i].sequence
                      # reverse_complement(unique_records[j].sequence)
    /\ \A i \in 1..n :
         ~Kept(i) => \E k \in 1..(i - 1) :
                       /\ Kept(k)
                       /\ Forms(records[i], is_dna) \cap Forms(records[k], is_dna) # {}
    /\ ~is_dna =>
         \A i, j \in 1..n :
           (/\ records[j].sequence = reverse_complement(records[i].sequence)
            /\ records[j].sequence # records[i].sequence) =>
             /\ records[i].sequence \in SequenceSet(unique_records)
             /\ records[j].sequence \in SequenceSet(unique_records)
             /\ ~Kept(i) => \E k \in 1..(i - 1) :
                              records[k].sequence = records[i].sequence

\* a DNA-mode run that dropped a record for its reverse complement alone and
\* kept two records
C10_Witness ==
  /\ pc = "fn_deduped"
  /\ is_dna
  /\ Len(unique_records) = 2
  /\ \E i \in 1..Len(records) :
       /\ ~Kept(i)
       /\ \A j \in 1..(i - 1) : records[j].sequence # records[i].sequence

(***************************************************************************)
(* C11: the streaming processor against the in-memory pipeline             *)
(***************************************************************************)
\* the records the in-memory pipeline of main.rs keeps for the input file
InMemoryKept == remove_exact_duplicates(parse_fasta(input_file.lines), is_dna)

\* C11: for every input, DNA setting and batch size of at least 1, the records
\* the streaming processor has written at the end of the run are, in order,
\* the records remove_exact_duplicates keeps of parse_fasta of the same input,
\* and its two totals are the number of records parsed and the number written.
C11_StreamingEqualsInMemory ==
  (StreamingPath /\ pc = "done") =>
    \A b \in BatchSizes \ {0} :
      /\ OutputRecords(stream[b].out.lines) = InMemoryKept
      /\ stream[b].total_processed = Len(parse_fasta(input_file.lines))
      /\ stream[b].total_kept = Len(OutputRecords(stream[b].out.lines))

\* a finished streaming run in DNA mode that parsed three records, dropped the
\* second as the reverse complement of the first, and kept the last
C11_Witness ==
  /\ StreamingPath /\ pc = "done" /\ is_dna
  /\ Len(parse_fasta(input_file.lines)) = 3
  /\ parse_fasta(input_file.lines)[1].sequence = <<"A">>
  /\ parse_fasta(input_file.lines)[2].sequence = <<"T">>
  /\ Len(InMemoryKept) = 2
  /\ InMemoryKept[2] = parse_fasta(input_file.lines)[3]
  /\ \A b \in BatchSizes \ {0} : stream[b].total_kept = 2

(***************************************************************************)
(* C12: the parallel remover against the sequential one, by count          *)
(***************************************************************************)
\* the records the sequential remover of main.rs keeps of the loaded list
SequentialKept == remove_substring_sequences(records, is_dna)

\* no sequence of the loaded list has a lower-case letter
UpperCaseInput == \A i \in 1..Len(records) : IsUpperCase(records[i].sequence)

\* C12 as stated: for every input, DNA setting, worker count and interleaving,
\* the parallel remover retains at least as many records as the sequential
\* remover does on the same record list.
C12_ParallelKeepsAtLeastSequential ==
  (ParallelPath /\ pc = "done") => Len(final_vec) >= Len(SequentialKept)

\* C12, amended: with DNA mode off, or on an input whose sequences have no
\* lower-case letter, the parallel remover retains at least as many records
\* as the sequential remover does on the same record list, for every worker
\* count and interleaving.
C12_ParallelKeepsAtLeastSequentialUpper ==
  (ParallelPath /\ pc = "done" /\ (~is_dna \/ UpperCaseInput)) =>
    Len(final_vec) >= Len(SequentialKept)

\* a finished run of two chunks on an upper-case input in DNA mode in which
\* the second chunk's record survived only because it was tested before the
\* first chunk's merge
C12_Witness ==
  /\ ParallelPath /\ pc = "done" /\ is_dna /\ UpperCaseInput
  /\ Cardinality(DOMAIN chunks) = 2
  /\ Len(final_vec) > Len(SequentialKept)

(***************************************************************************)
(* C13: what a chunk sees of another chunk's kept sequences                *)
(***************************************************************************)
\* the chunks whose end-of-chunk merge has finished
Merged == {c \in DOMAIN chunks : chunks[c].stage \in {"lock_count", "count", "done"}}

\* the record chunk c is at
CurrentRecord(c) == ChunkOf(records, batch_size, c)[chunks[c].pos]

\* a merged chunk other than b kept a longer sequence that contains the
\* sequence of b's current record or, in DNA mode, its reverse complement
CoveredByMerged(b) ==
  \E a \in Merged \ {b} : \E k \in 1..Len(chunks[a].local_kept) :
    LET kept_seq == chunks[a].local_kept[k]
        current_seq == CurrentRecord(b).sequence
    IN /\ Len(kept_seq) > Len(current_seq)
       /\ \/ contains(kept_seq, current_seq)
          \/ is_dna /\ contains(kept_seq, opt_reverse_complement(current_seq))

\* the global set holds the kept sequences of the merged chunks and no others
OnlyMergedVisible ==
  kept_sequences = UNION {SetOfSeq(chunks[a].local_kept) : a \in Merged}

\* the global pass of chunk b over a record covered by a merged chunk drops
\* the record: it is marked a substring, and it is pushed onto neither list
CoveredIsDropped ==
  \A b \in DOMAIN chunks :
    (chunks[b].stage = "global_pass" /\ chunks'[b].stage # "global_pass"
       /\ CoveredByMerged(b)) =>
      /\ chunks'[b].is_substring
      /\ chunks'[b].local_kept = chunks[b].local_kept
      /\ chunks'[b].stage \in {"lock_kept", "lock_merge"}
      /\ final_vec' = final_vec

\* the global list grows only by the push of a record that was not marked
PushOnlyUnmarked ==
  final_vec' # final_vec =>
    \E c \in DOMAIN chunks :
      /\ chunks[c].stage = "push_final"
      /\ ~chunks[c].is_substring
      /\ final_vec' = Append(final_vec, CurrentRecord(c))

\* C13: a record evaluated after another chunk's merge, whose sequence (in DNA
\* mode: or whose reverse complement) is a substring of a longer sequence that
\* chunk kept, is dropped and never pushed onto the global list; and the
\* global set shows a chunk's kept sequences only once the chunk has merged.
C13_MergedChunksSubsume ==
  /\ []OnlyMergedVisible
  /\ [][CoveredIsDropped /\ PushOnlyUnmarked]_vars

\* in DNA mode the second chunk has dropped its record C, whose reverse
\* complement lies in the GG the first chunk kept and merged; the second
\* chunk itself has not merged, so the global set it read was the first's
C13_Witness ==
  /\ ParallelPath /\ pc = "chunks" /\ is_dna
  /\ Cardinality(DOMAIN chunks) = 2
  /\ chunks[0].stage = "done"
  /\ PadLong \in SetOfSeq(chunks[0].local_kept)
  /\ chunks[1].stage = "lock_merge"
  /\ CurrentRecord(1).sequence = <<"C">>
  /\ chunks[1].is_substring
  /\ chunks[1].local_kept = <<>>

(***************************************************************************)
(* C14: the write of the parallel path                                     *)
(***************************************************************************)
AllChunksDone == \A c \in DOMAIN chunks : chunks[c].stage = "done"

\* C14: in the parallel path nothing is created or written while a chunk has
\* not finished its records and its merge; the destination is created at most
\* once, and exactly once in a finished run that writes to a file; the lines
\* of a finished run are the records of the global kept-record list, once.
C14_WriteOnceAfterChunks ==
  ParallelPath =>
    /\ out # NoOutput => (pc = "done" /\ AllChunksDone)
    /\ out.creates <= 1
    /\ pc = "done" =>
         /\ AllChunksDone
         /\ out.lines = RecordLines(final_vec)
         /\ out.creates = IF output = "file" THEN 1 ELSE 0

\* a finished run of two chunks that wrote the records both chunks kept to the
\* file it created
C14_Witness ==
  /\ ParallelPath /\ pc = "done" /\ output = "file"
  /\ Cardinality(DOMAIN chunks) = 2
  /\ chunks[0].local_kept # <<>> /\ chunks[1].local_kept # <<>>
  /\ out.creates = 1
  /\ Len(out.lines) = 2 * Len(final_vec)
  /\ Len(final_vec) = Len(chunks[0].local_kept) + Len(chunks[1].local_kept)

(***************************************************************************)
(* C15: the seen set of the duplicate removers                             *)
(***************************************************************************)
\* the batch a flush of the run drains: the buffer and the record in progress
PendingBatch(run) ==
  IF run.current_header # <<>>
  THEN Append(run.batch_records, FastaRecord(run.current_header, run.current_sequence))
  ELSE run.batch_records

\* process_batch of the run on the first k records of the batch
BatchAfter(run, batch, k) ==
  BatchLoop(BatchStart(run.seen_sequences, <<>>), SubSeq(batch, 1, k), 1, is_dna)

\* every record kept so far has its sequence and, in DNA mode, its reverse
\* complement in the seen set
KeptIsSeen ==
  /\ \A i \in 1..Len(dedup.st.unique_records) :
       LET sequence == dedup.st.unique_records[i].sequence IN
       /\ sequence \in dedup.st.seen_sequences
       /\ is_dna => reverse_complement(sequence) \in dedup.st.seen_sequences
  /\ \A b \in BatchSizes :
       LET written == OutputRecords(stream[b].out.lines) IN
       \A i \in 1..Len(written) :
         /\ written[i].sequence \in stream[b].seen_sequences
         /\ is_dna => opt_reverse_complement(written[i].sequence)
                        \in stream[b].seen_sequences

\* no step of either remover takes an element out of its seen set
SeenGrows ==
  /\ dedup.st.seen_sequences \subseteq dedup'.st.seen_sequences
  /\ \A b \in BatchSizes : stream[b].seen_sequences \subseteq stream'[b].seen_sequences

\* within a flush, record by record: the set after a record contains the set
\* before it, and the forms of the record if the record was kept
FlushGrows ==
  \A b \in BatchSizes :
    stream'[b].total_processed # stream[b].total_processed =>
      LET batch == PendingBatch(stream[b]) IN
      /\ stream'[b].batch_records = <<>>
      /\ stream'[b].seen_sequences = BatchAfter(stream[b], batch, Len(batch)).seen_sequences
      /\ \A k \in 1..Len(batch) :
           LET before == BatchAfter(stream[b], batch, k - 1)
               after == BatchAfter(stream[b], batch, k)
           IN /\ before.seen_sequences \subseteq after.seen_sequences
              /\ after.kept_count > before.kept_count =>
                   /\ batch[k].sequence \in after.seen_sequences
                   /\ is_dna => opt_reverse_complement(batch[k].sequence)
                                  \in after.seen_sequences

\* C15: the seen set of the in-memory remover and of the streaming processor
\* only grows, step by step and record by record within a flush, also across
\* the clear of the batch buffer; and every kept record has its sequence and,
\* in DNA mode, its reverse complement in the set.
C15_SeenSetGrows ==
  /\ []KeptIsSeen
  /\ [][SeenGrows /\ FlushGrows]_vars

\* a streaming run in DNA mode with batch size 2, after the flush of its first
\* batch: A was kept, T dropped as its reverse complement, the buffer is
\* empty and the set holds A and T
C15_Witness ==
  /\ StreamingPath /\ pc = "streaming" /\ is_dna
  /\ stream[2].total_processed = 2
  /\ stream[2].total_kept = 1
  /\ stream[2].batch_records = <<>>
  /\ stream[2].seen_sequences = {<<"A">>, <<"T">>}
  /\ OutputRecords(stream[2].out.lines)[1].sequence = <<"A">>

(***************************************************************************)
(* C16: the batch buffer of the streaming processor                        *)
(***************************************************************************)
\* C16: the batch buffer of a streaming run never holds more than
\* max(1, batch_size) records, and the run with batch size 0 is in every state
\* the run with batch size 1: it flushes after every finalized record and
\* writes the same output.
C16_BufferBounded ==
  /\ \A b \in BatchSizes :
       /\ Len(stream[b].batch_records) <= Max(1, b)
       /\ stream[b].max_batch_len <= Max(1, b)
  /\ stream[0] = stream[1]
  /\ stream[0].batch_records = <<>>
  /\ stream[0].max_batch_len <= stream[0].total_processed

\* a finished run on three records: the buffer of batch size 2 reached two
\* records, that of batch size 3 three, and batch size 0 flushed three times
\* one record
C16_Witness ==
  /\ StreamingPath /\ pc = "done"
  /\ stream[0].total_processed = 3
  /\ stream[0].max_batch_len = 1
  /\ stream[1].max_batch_len = 1
  /\ stream[2].max_batch_len = 2
  /\ stream[3].max_batch_len = 3
  /\ stream[0].out.lines = stream[3].out.lines
  /\ stream[0].out.lines # <<>>

(***************************************************************************)
(* C17: the context of the errors that reach main                          *)
(***************************************************************************)
\* the path the context of the error names, if the error has a context
ContextPath(e) == IF e.context = <<>> THEN "" ELSE e.context[2]

\* C17: in both programs, and on both paths of the optimized program, a
\* failure to open the input reaches main with the input path as context and
\* a failure to create the output file with the output path as context.
C17_ErrorsCarryPath ==
  pc = "error" =>
    /\ error.cause \in {"open", "create"}
    /\ error.cause = "open" => ContextPath(error) = InputPath
    /\ error.cause = "create" => ContextPath(error) = OutputPath

(***************************************************************************)
(* C18: the two mutexes of the parallel remover                            *)
(***************************************************************************)
\* no worker holds the mutex of kept_sequences and that of final_records
NoWorkerHoldsBoth == kept_lock \cap final_lock = {}

\* each mutex has at most one holder, and the holder is at the step the lock
\* was taken for
LocksHeldForOneStep ==
  /\ \A c \in DOMAIN chunks :
       /\ c \in kept_lock <=> chunks[c].stage \in {"global_pass", "merge"}
       /\ c \in final_lock <=> chunks[c].stage \in {"push_final", "count"}
  /\ Cardinality(kept_lock) <= 1
  /\ Cardinality(final_lock) <= 1

\* while the chunks are being processed some thread can take a step
NoDeadlock == pc = "chunks" => ENABLED NextChunks

\* C18: no worker of the parallel remover ever holds both mutexes, the run is
\* never stuck while chunks are being processed, and under a fair scheduler
\* every chunk completes and the run reaches the write.
C18_LocksAndTermination ==
  /\ [](NoWorkerHoldsBoth /\ LocksHeldForOneStep /\ NoDeadlock)
  /\ (pc = "chunks") ~> AllChunksDone
  /\ (pc = "chunks") ~> (pc \in {"done", "error"})

\* two workers at once, one in the global pass under the first mutex, the
\* other in a push under the second
C18_Witness ==
  /\ ParallelPath /\ pc = "chunks"
  /\ Cardinality(DOMAIN chunks) = 2
  /\ kept_lock = {1} /\ chunks[1].stage = "global_pass"
  /\ final_lock = {0} /\ chunks[0].stage = "push_final"

(***************************************************************************)
(* C19: the chunk size and the worker count                                *)
(***************************************************************************)
\* the records have been split into chunks
ChunksSplit ==
  /\ ParallelPath
  /\ pc \in {"chunks", "done"} \/ (pc = "error" /\ error = opt_create_error)

\* the sequences of a list of records
SequencesOf(rs) == [k \in 1..Len(rs) |-> rs[k].sequence]

\* what one worker alone keeps of the sorted list: each record is tested
\* against the records kept before it
RECURSIVE OneChunkLoop(_, _, _, _)
OneChunkLoop(kept, rs, i, dna) ==
  IF i > Len(rs)
  THEN kept
  ELSE OneChunkLoop(IF SubsumedByLocal(SequencesOf(kept), rs[i].sequence, dna)
                    THEN kept
                    ELSE Append(kept, rs[i]),
                    rs, i + 1, dna)

OneChunkKept == OneChunkLoop(<<>>, records, 1, is_dna)

\* C19: the resolved worker count is at least 1 and the chunk size at least
\* 1000; a list of at most 1000 records is one chunk (none when the list is
\* empty), and what is kept of it is fixed by the list and the DNA flag alone,
\* whatever the worker count and the schedule.
C19_OneChunkUpTo1000 ==
  /\ num_cores >= 1
  /\ ChunksSplit =>
       /\ batch_size >= MinBatchSize
       /\ Len(records) <= MinBatchSize =>
            /\ DOMAIN chunks = (IF records = <<>> THEN {} ELSE {0})
            /\ AllChunksDone => final_vec = OneChunkKept

\* --cores 0 resolved to one worker: the three records are one chunk, and
\* the chunk has dropped one of them
C19_Witness ==
  /\ ParallelPath /\ pc = "done"
  /\ cores_arg = <<0>> /\ num_cores = 1
  /\ DOMAIN chunks = {0}
  /\ Len(records) = MaxRecs
  /\ Len(final_vec) < Len(records)

(***************************************************************************)
(* C20: the global set, the global list and the local lists                *)
(***************************************************************************)
\* the number of places of a list that hold v
Occurrences(list, v) == Cardinality({k \in 1..Len(list) : list[k] = v})

\* the number of records the chunks 0 .. n-1 have put on their local lists
RECURSIVE AcceptedUpTo(_)
AcceptedUpTo(n) ==
  IF n = 0 THEN 0 ELSE AcceptedUpTo(n - 1) + Len(chunks[n - 1].local_kept)

AcceptedTotal == AcceptedUpTo(Cardinality(DOMAIN chunks))

\* every sequence of the global set is the sequence of a record of the
\* global list
KeptSetInFinalList == kept_sequences \subseteq SetOfSeq(SequencesOf(final_vec))

\* the global list holds a record no more often than the input does
EachRecordAtMostOnce ==
  \A v \in SetOfSeq(final_vec) : Occurrences(final_vec, v) <= Occurrences(records, v)

\* C20: in every state of the parallel remover each sequence of the global
\* kept set is the sequence of a record already on the global kept list, each
\* input record is on that list at most once, and when every chunk is done
\* the list is as long as the local lists together.
C20_GlobalListInvariants ==
  ChunksSplit =>
    /\ KeptSetInFinalList
    /\ EachRecordAtMostOnce
    /\ AllChunksDone => Len(final_vec) = AcceptedTotal

\* two chunks are done and merged, each has accepted a record, and the
\* records are yet to be written
C20_Witness ==
  /\ ParallelPath /\ pc = "chunks"
  /\ Cardinality(DOMAIN chunks) = 2 /\ AllChunksDone
  /\ chunks[0].local_kept # <<>> /\ chunks[1].local_kept # <<>>
  /\ Cardinality(kept_sequences) = Len(final_vec)
  /\ Len(final_vec) < Len(records)

====
